---- MODULE Spec2Model ----
(***************************************************************************)
(* Model of artnet_to_csv.py: the separator locator, the region text       *)
(* extractor and field parser (get_artwork_info), the "Sale of" decomposer *)
(* (parse_sale_of_column) and the driver (main).                           *)
(*                                                                         *)
(* A Python str is a sequence of one-character strings; "\n" is a          *)
(* character of the sequence, so split, strip and startswith are computed  *)
(* on the characters.  An optional value is <<>> (None) or <<v>>.          *)
(***************************************************************************)
EXTENDS Integers, Sequences, FiniteSets, TLC

VARIABLES
    pc,             \* position of the procedure the specification runs
    text,           \* get_artwork_info: the extracted text
    lines,          \* get_artwork_info: text.split('\n')
    idx,            \* get_artwork_info: index of the next line (0-based)
    artwork,        \* get_artwork_info: the record under construction
    current_field,  \* get_artwork_info: <<>> (None) or <<label>>
    entry,          \* parse_sale_of_column: its argument, <<>> for a missing cell
    sale,           \* parse_sale_of_column: what the call did
    doc,            \* the open document: its pages
    separators,     \* find_artnet_separators: the list returned
    start_sep,      \* get_artwork_info: its start separator
    end_sep,        \* get_artwork_info: its end separator
    pdf_files,      \* main: the files listed in data/
    file_idx,       \* main: number of the file of the outer loop (1-based)
    i,              \* main: index of the inner loop
    results,        \* main: the list of records
    table,          \* main: <<>>, or <<rows>> once artnet_results.csv is written
    error           \* main: the exception that ended the run, "" if none

parseVars == <<text, lines, idx, artwork, current_field>>
saleVars == <<entry, sale>>
geomVars == <<doc, separators, start_sep, end_sep>>
mainVars == <<pdf_files, file_idx, i, results, table, error>>
vars == <<pc, parseVars, saleVars, geomVars, mainVars>>
otherThanParse == <<saleVars, geomVars, mainVars>>
otherThanSale == <<parseVars, geomVars, mainVars>>

----------------------------------------------------------------------------
(* Bounds of the model.                                                    *)

MaxLines == 4       \* lines of a text handed to the field parser
MaxDrawings == 2    \* drawings on a page handed to the separator locator
MaxPages == 3       \* pages of a document handed to the text extractor
MaxFiles == 2       \* files the driver finds in data/

----------------------------------------------------------------------------
(* ARTNET_CATEGORIES and the other string literals of the program.         *)

Title == <<"T", "i", "t", "l", "e">>
Description == <<"D", "e", "s", "c", "r", "i", "p", "t", "i", "o", "n">>
Medium == <<"M", "e", "d", "i", "u", "m">>
YearOfWork == <<"Y", "e", "a", "r", " ", "o", "f", " ", "W", "o", "r", "k">>
Size == <<"S", "i", "z", "e">>
SaleOf == <<"S", "a", "l", "e", " ", "o", "f">>
Estimate == <<"E", "s", "t", "i", "m", "a", "t", "e">>
SoldFor == <<"S", "o", "l", "d", " ", "F", "o", "r">>
Misc == <<"M", "i", "s", "c", ".">>
Artist == <<"A", "r", "t", "i", "s", "t">>

ARTNET_CATEGORIES ==
    <<Title, Description, Medium, YearOfWork, Size, SaleOf, Estimate, SoldFor, Misc>>

None == <<>>
Some(v) == <<v>>

Lot == <<"L", "o", "t">>
Online == <<"o", "n", "l", "i", "n", "e">>
NaNStr == <<"n", "a", "n">>

UpperCase ==
    <<"A", "B", "C", "D", "E", "F", "G", "H", "I", "J", "K", "L", "M", "N", "O", "P",
      "Q", "R", "S", "T", "U", "V", "W", "X", "Y", "Z">>
LowerCase ==
    <<"a", "b", "c", "d", "e", "f", "g", "h", "i", "j", "k", "l", "m", "n", "o", "p",
      "q", "r", "s", "t", "u", "v", "w", "x", "y", "z">>
Digits == <<"0", "1", "2", "3", "4", "5", "6", "7", "8", "9">>

Monday == <<"M", "o", "n", "d", "a", "y">>
Tuesday == <<"T", "u", "e", "s", "d", "a", "y">>
Wednesday == <<"W", "e", "d", "n", "e", "s", "d", "a", "y">>
Thursday == <<"T", "h", "u", "r", "s", "d", "a", "y">>
Friday == <<"F", "r", "i", "d", "a", "y">>
Saturday == <<"S", "a", "t", "u", "r", "d", "a", "y">>
Sunday == <<"S", "u", "n", "d", "a", "y">>
January == <<"J", "a", "n", "u", "a", "r", "y">>
February == <<"F", "e", "b", "r", "u", "a", "r", "y">>
March == <<"M", "a", "r", "c", "h">>
April == <<"A", "p", "r", "i", "l">>
May == <<"M", "a", "y">>
June == <<"J", "u", "n", "e">>
July == <<"J", "u", "l", "y">>
August == <<"A", "u", "g", "u", "s", "t">>
September == <<"S", "e", "p", "t", "e", "m", "b", "e", "r">>
October == <<"O", "c", "t", "o", "b", "e", "r">>
November == <<"N", "o", "v", "e", "m", "b", "e", "r">>
December == <<"D", "e", "c", "e", "m", "b", "e", "r">>

\* the names %A and %B match
WeekdayNames == <<Monday, Tuesday, Wednesday, Thursday, Friday, Saturday, Sunday>>
MonthNames ==
    <<January, February, March, April, May, June, July, August, September, October,
      November, December>>

----------------------------------------------------------------------------
(* Python str operations.                                                  *)

Min(S) == CHOOSE m \in S : \A n \in S : m <= n
Max(S) == CHOOSE m \in S : \A n \in S : m >= n

IsSpace(c) == c \in {" ", "\t", "\n"}

\* s[n:]
Drop(s, n) == SubSeq(s, n + 1, Len(s))

\* s.startswith(p)
StartsWith(s, p) == Len(p) <= Len(s) /\ SubSeq(s, 1, Len(p)) = p

\* p in s
Contains(s, p) == \E k \in 1..(Len(s) - Len(p) + 1) : SubSeq(s, k, k + Len(p) - 1) = p

\* s.strip()
Strip(s) ==
    LET solid == {k \in 1..Len(s) : ~IsSpace(s[k])}
    IN  IF solid = {} THEN <<>> ELSE SubSeq(s, Min(solid), Max(solid))

\* The one element of a singleton set.  Only({F(x) : x \in {e}}) is F(e),
\* written so that TLC evaluates e once and hands F its value.
Only(S) == CHOOSE x \in S : TRUE

\* s[p-1:].split('\n'): the lines of s from index p on
RECURSIVE SplitFrom(_, _)
SplitFrom(s, p) ==
    LET nl == {k \in p..Len(s) : s[k] = "\n"}
    IN  IF nl = {} THEN <<SubSeq(s, p, Len(s))>>
        ELSE Only({<<SubSeq(s, p, q - 1)>> \o SplitFrom(s, q + 1) : q \in {Min(nl)}})

\* s.split('\n')
Split(s) == SplitFrom(s, 1)

\* '\n'.join(ls)
RECURSIVE JoinLines(_)
JoinLines(ls) ==
    IF ls = <<>> THEN <<>>
    ELSE IF Len(ls) = 1 THEN ls[1]
    ELSE ls[1] \o <<"\n">> \o JoinLines(Tail(ls))

\* d[k] = v on a dict d
Put(d, k, v) == [x \in DOMAIN d \cup {k} |-> IF x = k THEN v ELSE d[x]]

EmptyDict == [x \in {} |-> <<>>]

----------------------------------------------------------------------------
(* The document as the program reads it through fitz.  A page is           *)
(* [drawings, blocks, height]: a drawing is [kind, y0, y1, width], the     *)
(* type tag and rectangle of its first item; a block is [y, line], a line  *)
(* of text at height y.                                                    *)

\* the text of the blocks bs[k..], each line ended by a newline
RECURSIVE BlocksFrom(_, _)
BlocksFrom(bs, k) ==
    IF k > Len(bs) THEN <<>> ELSE bs[k].line \o <<"\n">> \o BlocksFrom(bs, k + 1)

BlocksText(bs) == BlocksFrom(bs, 1)

\* page.get_text("text", clip=fitz.Rect(0, y0, page.rect.width, y1))
ClipText(page, y0, y1) ==
    BlocksText(SelectSeq(page.blocks, LAMBDA b : y0 <= b.y /\ b.y < y1))

\* page.get_text("text")
FullText(page) == BlocksText(page.blocks)

----------------------------------------------------------------------------
(* find_artnet_separators, lines 25-41.                                    *)

Abs(x) == IF x < 0 THEN -x ELSE x

\* lines 30-38: the drawings ds[k..] of one page, separators appended to acc
RECURSIVE ScanDrawings(_, _, _, _)
ScanDrawings(ds, k, page_num, acc) ==
    IF k > Len(ds) THEN acc
    ELSE ScanDrawings(ds, k + 1, page_num,
            IF ds[k].kind = "re" /\ Abs(ds[k].y1 - ds[k].y0) < 1 /\ ds[k].width > 100
            THEN Append(acc, [page |-> page_num, y |-> ds[k].y0])
            ELSE acc)

\* lines 26-38: the pages from page_num (0-based) on
RECURSIVE ScanPages(_, _, _)
ScanPages(d, page_num, acc) ==
    IF page_num >= Len(d) THEN acc
    ELSE ScanPages(d, page_num + 1, ScanDrawings(d[page_num + 1].drawings, 1, page_num, acc))

\* Mutant: the border filter keeps y = 50.
find_artnet_separators_KeepsBorder(d) ==
    SelectSeq(ScanPages(d, 0, <<>>), LAMBDA sep : sep.y >= 50)

\* lines 25-41
find_artnet_separators(d) ==
    SelectSeq(ScanPages(d, 0, <<>>), LAMBDA sep : sep.y > 50)

----------------------------------------------------------------------------
(* get_artwork_info, lines 55-77: the region text extractor.               *)

\* Mutant: range(start + 1, end + 1).
RECURSIVE MiddlePages_Inclusive(_, _, _, _)
MiddlePages_Inclusive(d, page_num, stop, acc) ==
    IF page_num > stop THEN acc
    ELSE MiddlePages_Inclusive(d, page_num + 1, stop,
            acc \o <<"\n">> \o Strip(FullText(d[page_num + 1])))

\* lines 69-71: the pages page_num..stop-1 (0-based), appended to acc
RECURSIVE MiddlePages(_, _, _, _)
MiddlePages(d, page_num, stop, acc) ==
    IF page_num >= stop THEN acc
    ELSE MiddlePages(d, page_num + 1, stop,
            acc \o <<"\n">> \o Strip(FullText(d[page_num + 1])))

\* lines 55-77
ExtractText(d, s0, s1) ==
    IF s0.page = s1.page
    THEN Strip(ClipText(d[s0.page + 1], s0.y, s1.y))
    ELSE LET first_page == d[s0.page + 1]
             last_page  == d[s1.page + 1]
             first == Strip(ClipText(first_page, s0.y, first_page.height))
         IN  MiddlePages(d, s0.page + 1, s1.page, first)
                \o <<"\n">> \o Strip(ClipText(last_page, 0, s1.y))

----------------------------------------------------------------------------
(* get_artwork_info, lines 80-107: the field parser.                       *)

\* any(artist_line.startswith(field) for field in ARTNET_CATEGORIES)
AnyLabel(line) == \E k \in 1..Len(ARTNET_CATEGORIES) : StartsWith(line, ARTNET_CATEGORIES[k])

\* Mutant: the preceding line is taken as the artist even when it is labelled.
ArtistLookback_NoLabelCheck(art, ls, i0) ==
    LET line == Strip(ls[i0 + 1])
    IN  IF StartsWith(line, Title) /\ i0 > 0
        THEN Put(art, Artist, Strip(ls[i0]))
        ELSE art

\* Mutant: the look-back runs at every line, not only at a Title line.
ArtistLookback_AnyLine(art, ls, i0) ==
    IF i0 > 0 /\ ~AnyLabel(Strip(ls[i0]))
    THEN Put(art, Artist, Strip(ls[i0]))
    ELSE art

\* The Title look-back of lines 90-94: the record after the Artist rule.
ArtistLookback(art, ls, i0) ==
    LET line == Strip(ls[i0 + 1])
    IN  IF StartsWith(line, Title) /\ i0 > 0 /\ ~AnyLabel(Strip(ls[i0]))
        THEN Put(art, Artist, Strip(ls[i0]))
        ELSE art

\* Mutant: "field in line" instead of line.startswith(field).
MatchLabel_Substring(line) ==
    LET hits == {k \in 1..Len(ARTNET_CATEGORIES) : Contains(line, ARTNET_CATEGORIES[k])}
    IN  IF hits = {} THEN 0 ELSE Min(hits)

\* The label scan of lines 96-103: the index of the label the for loop
\* breaks at, 0 when the loop runs to its else branch.
MatchLabel(line) ==
    LET hits == {k \in 1..Len(ARTNET_CATEGORIES) : StartsWith(line, ARTNET_CATEGORIES[k])}
    IN  IF hits = {} THEN 0 ELSE Min(hits)

\* line[len(field):].strip(), less one leading ':' (lines 99-101)
FieldValue(line, field) ==
    LET value == Strip(Drop(line, Len(field)))
    IN  IF StartsWith(value, <<":">>) THEN Strip(Drop(value, 1)) ELSE value

\* Mutant: the continuation line is appended without the joining space.
Continue_NoSpace(art, cf, line) ==
    IF cf # None /\ cf[1] \in DOMAIN art
    THEN Put(art, cf[1], art[cf[1]] \o line)
    ELSE art

\* artwork[current_field] += " " + line (lines 105-106)
Continue(art, cf, line) ==
    IF cf # None /\ cf[1] \in DOMAIN art
    THEN Put(art, cf[1], art[cf[1]] \o <<" ">> \o line)
    ELSE art

\* One iteration of the loop of lines 86-106 on lines[i0] (0-based), from
\* the state st = [artwork, current_field].
ParseLine(st, ls, i0) ==
    LET line == Strip(ls[i0 + 1])
        a1   == ArtistLookback(st.artwork, ls, i0)
        k    == MatchLabel(line)
    IN  IF k # 0
        THEN [artwork |-> Put(a1, ARTNET_CATEGORIES[k], FieldValue(line, ARTNET_CATEGORIES[k])),
              current_field |-> Some(ARTNET_CATEGORIES[k])]
        ELSE [artwork |-> Continue(a1, st.current_field, line),
              current_field |-> st.current_field]

\* the loop of lines 86-106 from line i0 on: the record it leaves
RECURSIVE ParseFrom(_, _, _)
ParseFrom(st, ls, i0) ==
    IF i0 >= Len(ls) THEN st.artwork
    ELSE Only({ParseFrom(next, ls, i0 + 1) : next \in {ParseLine(st, ls, i0)}})

\* lines 80-107 on the extracted text t
ParseText(t) ==
    IF t # <<>>
    THEN [raised |-> FALSE,
          value |-> Only({ParseFrom([artwork |-> EmptyDict, current_field |-> None], ls, 0) :
                            ls \in {Split(t)}})]
    ELSE [raised |-> TRUE, value |-> <<>>]

\* get_artwork_info, lines 55-107: the record returned; with no text
\* between the separators artwork is never bound and line 107 raises
\* UnboundLocalError.
get_artwork_info(d, s0, s1) == Only({ParseText(t) : t \in {ExtractText(d, s0, s1)}})

----------------------------------------------------------------------------
(* parse_sale_of_column, lines 109-144.                                    *)

IsDigit(c) == \E k \in 1..Len(Digits) : Digits[k] = c
IsAlnum(c) ==
    \/ IsDigit(c)
    \/ \E k \in 1..Len(UpperCase) : UpperCase[k] = c \/ LowerCase[k] = c

\* c.lower()
LowerChar(c) ==
    IF \E k \in 1..Len(UpperCase) : UpperCase[k] = c
    THEN LowerCase[CHOOSE k \in 1..Len(UpperCase) : UpperCase[k] = c]
    ELSE c

LowerStr(s) == [k \in 1..Len(s) |-> LowerChar(s[k])]

\* int(ds) for a string of digits
RECURSIVE IntOf(_)
IntOf(ds) ==
    IF ds = <<>> THEN 0
    ELSE 10 * IntOf(SubSeq(ds, 1, Len(ds) - 1))
            + (CHOOSE k \in 1..Len(Digits) : Digits[k] = ds[Len(ds)]) - 1

NoNewline(s) == \A k \in 1..Len(s) : s[k] # "\n"

\* the first index from p on that holds no whitespace (\s* from p, greedy)
SkipWs(s, p) == Min({q \in p..(Len(s) + 1) : q = Len(s) + 1 \/ ~IsSpace(s[q])})

\* the first index from p on that holds no digit
SkipDigits(s, p) == Min({q \in p..(Len(s) + 1) : q = Len(s) + 1 \/ ~IsDigit(s[q])})

\* str(entry): a missing cell of the column is NaN
StrOf(e) == IF e = None THEN NaNStr ELSE e[1]

\* '$' after '(.*?)': the rest of the string holds no newline but, possibly,
\* a last one
DollarOK(rest) ==
    \/ NoNewline(rest)
    \/ rest # <<>> /\ rest[Len(rest)] = "\n" /\ NoNewline(SubSeq(rest, 1, Len(rest) - 1))

\* the index of the character that ends the run [0-9A-Za-z\s]+ begun after
\* "[Lot" at b
LotEnd(s, b) ==
    Min({q \in (b + 4)..(Len(s) + 1) : q = Len(s) + 1 \/ ~(IsAlnum(s[q]) \/ IsSpace(s[q]))})

\* '\[(Lot\s*[0-9A-Za-z\s]+)\](.*?)$' matches s from index b
LotAt(s, b) ==
    /\ b + 3 <= Len(s)
    /\ s[b] = "["
    /\ SubSeq(s, b + 1, b + 3) = Lot
    /\ LET r == LotEnd(s, b)
       IN  /\ r >= b + 5
           /\ r <= Len(s)
           /\ s[r] = "]"
           /\ DollarOK(Drop(s, r))

\* re.match(pattern, s) (lines 113, 116): None, or the four groups.  The
\* lazy first group stops at the first ':' from which the rest can match,
\* the lazy second group at the first '[' from which the rest can match;
\* '.' matches no newline.
SaleMatch(s) ==
    LET ok(c, b) == /\ s[c] = ":"
                    /\ NoNewline(SubSeq(s, 1, c - 1))
                    /\ LotAt(s, b)
                    /\ NoNewline(Strip(SubSeq(s, c + 1, b - 1)))
        cs == {c \in 1..Len(s) : \E b \in (c + 1)..Len(s) : ok(c, b)}
    IN  IF cs = {} THEN None
        ELSE LET c == Min(cs)
                 b == Min({q \in (c + 1)..Len(s) : ok(c, q)})
                 r == LotEnd(s, b)
                 rest == Drop(s, r)
             IN  Some(<<SubSeq(s, 1, c - 1),
                        Strip(SubSeq(s, c + 1, b - 1)),
                        SubSeq(s, b + 1, r - 1),
                        IF rest # <<>> /\ rest[Len(rest)] = "\n"
                        THEN SubSeq(rest, 1, Len(rest) - 1) ELSE rest>>)

\* s[p:] starts with name, whatever the case of the letters
NameAt(s, p, name) ==
    /\ p + Len(name) - 1 <= Len(s)
    /\ LowerStr(SubSeq(s, p, p + Len(name) - 1)) = LowerStr(name)

DaysInMonth(year, month) ==
    IF month = 2
    THEN IF year % 4 = 0 /\ (year % 100 # 0 \/ year % 400 = 0) THEN 29 ELSE 28
    ELSE IF month \in {4, 6, 9, 11} THEN 30 ELSE 31

ValueError == [raised |-> TRUE, value |-> <<>>]
Returned(v) == [raised |-> FALSE, value |-> v]

\* datetime.strptime(s, "%A, %B %d, %Y") (line 127): the date, or ValueError
strptime(s) ==
    LET wd == {k \in 1..Len(WeekdayNames) : NameAt(s, 1, WeekdayNames[k])}
        p1 == 1 + Len(WeekdayNames[CHOOSE k \in wd : TRUE])
        p2 == SkipWs(s, p1 + 1)
        mo == {k \in 1..Len(MonthNames) : NameAt(s, p2, MonthNames[k])}
        month == CHOOSE k \in mo : TRUE
        p3 == p2 + Len(MonthNames[month])
        p4 == SkipWs(s, p3)
        p5 == SkipDigits(s, p4)
        dtext == SubSeq(s, p4, p5 - 1)
        p6 == SkipWs(s, p5 + 1)
        ytext == Drop(s, p6 - 1)
    IN  IF wd = {} THEN ValueError
        ELSE IF ~(p1 <= Len(s) /\ s[p1] = ",") \/ p2 = p1 + 1 THEN ValueError
        ELSE IF mo = {} \/ p4 = p3 THEN ValueError
        ELSE IF ~(Len(dtext) \in {1, 2} /\ IntOf(dtext) \in 1..31) THEN ValueError
        ELSE IF ~(p5 <= Len(s) /\ s[p5] = ",") \/ p6 = p5 + 1 THEN ValueError
        ELSE IF ~(Len(ytext) = 4 /\ \A k \in 1..4 : IsDigit(ytext[k])) THEN ValueError
        ELSE IF IntOf(ytext) < 1 \/ IntOf(dtext) > DaysInMonth(IntOf(ytext), month)
             THEN ValueError
        ELSE Returned([year |-> IntOf(ytext), month |-> month, day |-> IntOf(dtext)])

\* re.sub(r'Lot\s*', '', s[p-1:]): s from index p on, less every "Lot" and
\* the whitespace after it
RECURSIVE RemoveLotFrom(_, _)
RemoveLotFrom(s, p) ==
    IF p > Len(s) THEN <<>>
    ELSE IF p + 2 <= Len(s) /\ SubSeq(s, p, p + 2) = Lot
         THEN Only({RemoveLotFrom(s, q) : q \in {SkipWs(s, p + 3)}})
         ELSE <<s[p]>> \o RemoveLotFrom(s, p + 1)

\* re.sub(r'Lot\s*', '', s) (line 130)
RemoveLot(s) == RemoveLotFrom(s, 1)

\* the Series of lines 118-123 and 139-144
SaleFallback ==
    [auction_house |-> None, sale_date |-> None, lot_number |-> None, is_online |-> FALSE]

\* lines 125-137, from the groups of the match: the Series returned, or
\* the ValueError of strptime
SaleSeries(groups) ==
    Only({IF date.raised THEN ValueError
          ELSE Returned([auction_house |-> Some(Strip(groups[1])),
                         sale_date |-> Some(date.value),
                         lot_number |-> Some(Strip(RemoveLot(groups[3]))),
                         is_online |-> Contains(LowerStr(groups[4]), Online)]) :
          date \in {strptime(Strip(groups[2]))}})

\* The body of the try block, lines 116-137: the Series it returns, or the
\* exception it raises.
SaleTry(e) ==
    Only({IF match = None THEN Returned(SaleFallback) ELSE SaleSeries(match[1]) :
          match \in {SaleMatch(StrOf(e))}})

\* Mutant: the handler keeps the auction house it had already extracted.
parse_sale_of_column_Partial(e) ==
    Only({IF r.raised
          THEN Returned([SaleFallback EXCEPT
                            !.auction_house = Some(Strip(SaleMatch(StrOf(e))[1][1]))])
          ELSE r :
          r \in {SaleTry(e)}})

\* parse_sale_of_column: the bare except of lines 138-144 turns every
\* exception of the body into the fallback Series.
parse_sale_of_column(e) ==
    Only({IF r.raised THEN Returned(SaleFallback) ELSE r : r \in {SaleTry(e)}})

----------------------------------------------------------------------------
(* main, lines 147-166.  A file is [openable, pages]: fitz.open returns    *)
(* the pages of an openable file and raises on any other.                  *)

\* lines 155-156: the separators of entry n (0-based)
EntrySpan(seps, n) == <<seps[n + 1], seps[n + 2]>>

\* Mutant: results.insert(0, artwork).
AppendResult_Front(rs, a) == <<a>> \o rs

\* line 158
AppendResult(rs, a) == Append(rs, a)

\* df['Sale of'] of one row: NaN where the record has no such key
SaleCell(rec) == IF SaleOf \in DOMAIN rec THEN Some(rec[SaleOf]) ELSE None

\* lines 161-165: one row of the table written
TableRow(rec) ==
    Only({[record |-> rec,
           auction_house |-> parsed.auction_house,
           sale_date |-> parsed.sale_date,
           lot_number |-> parsed.lot_number,
           is_online |-> parsed.is_online] :
          parsed \in {parse_sale_of_column(SaleCell(rec)).value}})

----------------------------------------------------------------------------
(* Inputs of the field parser.                                             *)

L_JaneDoe == <<"J", "a", "n", "e", " ", "D", "o", "e">>
L_TitleUntitled ==
    <<"T", "i", "t", "l", "e", ":", " ", "U", "n", "t", "i", "t", "l", "e", "d">>

L_DescOil ==
    <<"D", "e", "s", "c", "r", "i", "p", "t", "i", "o", "n", ":", " ", "O", "i", "l",
      " ", "o", "n", " ", "c", "a", "n", "v", "a", "s">>
L_MoreDesc == <<"m", "o", "r", "e", " ", "d", "e", "s", "c", " ", "t", "e", "x", "t">>
L_SoldForSize ==
    <<"S", "o", "l", "d", " ", "F", "o", "r", ":", " ", "S", "i", "z", "e", " ", "1",
      "0">>
L_SaleOfPadded == <<" ", " ", "S", "a", "l", "e", " ", "o", "f", " ", ":", " ", "x", " ">>
L_Empty == <<>>

LinePool ==
    {L_JaneDoe, L_TitleUntitled, L_DescOil, L_MoreDesc, L_SoldForSize, L_SaleOfPadded,
     L_Empty}

RECURSIVE SeqsUpTo(_, _)
SeqsUpTo(S, n) ==
    IF n = 0 THEN {<<>>}
    ELSE LET shorter == SeqsUpTo(S, n - 1)
         IN  shorter \cup {Append(s, x) : s \in shorter, x \in S}

\* The texts the extractor can hand to the parser: stripped (lines 60-77).
ParserTexts ==
    {t \in {JoinLines(ls) : ls \in SeqsUpTo(LinePool, MaxLines)} : Strip(t) = t}

----------------------------------------------------------------------------
(* Inputs of parse_sale_of_column: a missing cell, and the strings         *)
(* house + separator + date + lot + trailer.                               *)

H_Christies == <<"C", "h", "r", "i", "s", "t", "i", "e", "'", "s">>
H_TwoColons == <<"A", ":", "B">>
S_ColonSpace == <<":", " ">>
S_Colon == <<":">>
S_Dash == <<" ", "-", " ">>
D_Valid ==
    <<"W", "e", "d", "n", "e", "s", "d", "a", "y", ",", " ", "M", "a", "y", " ", "1",
      "5", ",", " ", "2", "0", "2", "4">>
D_Feb30 ==
    <<"F", "r", "i", "d", "a", "y", ",", " ", "F", "e", "b", "r", "u", "a", "r", "y",
      " ", "3", "0", ",", " ", "2", "0", "2", "4">>
D_NoWeekday == <<"M", "a", "y", " ", "1", "5", ",", " ", "2", "0", "2", "4">>
D_Loose ==
    <<"w", "e", "d", "n", "e", "s", "d", "a", "y", ",", " ", " ", "m", "a", "y", " ",
      "5", ",", " ", "2", "0", "2", "4">>
K_Lot42 == <<" ", "[", "L", "o", "t", " ", "4", "2", "]">>
K_Lot7A == <<"[", "L", "o", "t", " ", "7", "A", "]">>
K_LowerLot == <<" ", "[", "l", "o", "t", " ", "4", "2", "]">>
K_LotBare == <<" ", "[", "L", "o", "t", "]">>
K_LotLot == <<" ", "[", "L", "o", "t", " ", "L", "o", "t", " ", "3", "]">>
T_Online == <<" ", "(", "O", "n", "l", "i", "n", "e", ")">>
T_Upper == <<" ", "O", "N", "L", "I", "N", "E", " ", "O", "N", "L", "Y">>
T_Live == <<" ", "(", "L", "i", "v", "e", ")">>
T_Newline == <<"\n">>

SaleHouses == {H_Christies, H_TwoColons, <<>>}
SaleSeparators == {S_ColonSpace, S_Colon, S_Dash}
SaleDates == {D_Valid, D_Feb30, D_NoWeekday, D_Loose, <<>>}
SaleLots == {K_Lot42, K_Lot7A, K_LowerLot, K_LotBare, K_LotLot, <<>>}
SaleTrailers == {T_Online, T_Upper, T_Live, T_Newline, <<>>}

SaleEntries ==
    {None} \cup
    {Some(h \o c \o d \o k \o t) :
        h \in SaleHouses, c \in SaleSeparators, d \in SaleDates, k \in SaleLots,
        t \in SaleTrailers}

----------------------------------------------------------------------------
(* Inputs of the separator locator: pages of up to MaxDrawings drawings,   *)
(* documents of one or two such pages.                                     *)

Bar(y) == [kind |-> "re", y0 |-> y, y1 |-> y, width |-> 500]

DrawingPool ==
    {Bar(100), Bar(51),
     Bar(50),                                               \* a page border
     [kind |-> "re", y0 |-> 200, y1 |-> 200, width |-> 100],  \* too narrow
     [kind |-> "re", y0 |-> 300, y1 |-> 301, width |-> 500],  \* too high
     [kind |-> "l", y0 |-> 400, y1 |-> 400, width |-> 500]}   \* not a rectangle

SepPages ==
    {[drawings |-> ds, blocks |-> <<>>, height |-> 800] :
        ds \in SeqsUpTo(DrawingPool, MaxDrawings)}

SepDocs == {<<p>> : p \in SepPages} \cup {<<p, q>> : p \in SepPages, q \in SepPages}

----------------------------------------------------------------------------
(* Inputs of the text extractor: documents of up to MaxPages pages of      *)
(* text, and two separators on them, the start page not after the end.     *)

B_Header == <<"H", "e", "a", "d", "e", "r">>
B_AnnLee == <<"A", "n", "n", " ", "L", "e", "e">>
B_TitleTwo == <<"T", "i", "t", "l", "e", ":", " ", "T", "w", "o">>
B_MediumOil == <<"M", "e", "d", "i", "u", "m", ":", " ", "o", "i", "l">>
B_MiscX == <<"M", "i", "s", "c", ".", " ", "x">>
B_SaleOf == SaleOf \o S_ColonSpace \o H_Christies \o S_ColonSpace \o D_Valid \o K_Lot42 \o T_Online

Block(y, line) == [y |-> y, line |-> line]

PgA == [drawings |-> <<>>, height |-> 800,
        blocks |-> <<Block(150, L_JaneDoe), Block(170, L_TitleUntitled), Block(500, B_AnnLee)>>]
PgB == [drawings |-> <<>>, height |-> 800, blocks |-> <<Block(200, B_MediumOil)>>]
PgC == [drawings |-> <<>>, height |-> 800, blocks |-> <<>>]
PgD == [drawings |-> <<>>, height |-> 800,
        blocks |-> <<Block(60, B_TitleTwo), Block(450, B_MiscX)>>]

TextPagePool == {PgA, PgB, PgC, PgD}

ExtractDocs == SeqsUpTo(TextPagePool, MaxPages) \ {<<>>}

SepYs == {100, 400}

----------------------------------------------------------------------------
(* Inputs of the driver: up to MaxFiles files, in any order, among a file  *)
(* that does not open and documents with and without separators, with an   *)
(* entry that spans two pages, and with no text between two separators.    *)

\* a border, two separators and one entry between them; text after the last
DP1 == [drawings |-> <<Bar(40), Bar(100), Bar(400)>>, height |-> 800,
        blocks |-> <<Block(60, B_Header), Block(150, L_JaneDoe), Block(170, L_TitleUntitled),
                     Block(190, B_SaleOf), Block(500, B_AnnLee), Block(520, B_TitleTwo)>>]
\* two separators and no text between them
DP2 == [drawings |-> <<Bar(100), Bar(400)>>, height |-> 800,
        blocks |-> <<Block(60, B_Header)>>]
\* no drawing at all
DP3 == [drawings |-> <<>>, height |-> 800, blocks |-> <<Block(200, B_MediumOil)>>]
\* one separator
DP4 == [drawings |-> <<Bar(300)>>, height |-> 800,
        blocks |-> <<Block(100, L_MoreDesc), Block(350, B_MiscX)>>]

Openable(pages) == [openable |-> TRUE, pages |-> pages]
Unopenable == [openable |-> FALSE, pages |-> <<>>]

DriverFiles ==
    {Openable(<<DP1>>), Openable(<<DP2>>), Openable(<<DP3>>), Openable(<<DP4>>),
     Openable(<<DP1, DP4>>), Openable(<<DP4, DP3, DP1>>), Unopenable}

----------------------------------------------------------------------------
(* Initial values of the variables a specification does not use.           *)

NotCalled == [raised |-> FALSE, value |-> <<>>]

IdleParse ==
    /\ text = <<>>
    /\ lines = <<>>
    /\ idx = 0
    /\ artwork = EmptyDict
    /\ current_field = None

IdleSale ==
    /\ entry = None
    /\ sale = NotCalled

NoSeparator == [page |-> 0, y |-> 0]

IdleGeom ==
    /\ doc = <<>>
    /\ separators = <<>>
    /\ start_sep = NoSeparator
    /\ end_sep = NoSeparator

IdleMain ==
    /\ pdf_files = <<>>
    /\ file_idx = 1
    /\ i = 0
    /\ results = <<>>
    /\ table = None
    /\ error = ""

----------------------------------------------------------------------------
(* Specification of the field parser: get_artwork_info from line 80 on.    *)

InitParse ==
    /\ pc = "parse"
    /\ text \in ParserTexts
    /\ lines = <<>>
    /\ idx = 0
    /\ artwork = EmptyDict
    /\ current_field = None
    /\ IdleSale
    /\ IdleGeom
    /\ IdleMain

\* lines 80-83; with an empty text the function falls to line 107 with
\* artwork unbound and raises UnboundLocalError.
ParseStart ==
    /\ pc = "parse"
    /\ IF text # <<>>
       THEN /\ lines' = Split(text)
            /\ pc' = "lines"
       ELSE /\ lines' = lines
            /\ pc' = "raised"
    /\ UNCHANGED <<text, idx, artwork, current_field>>
    /\ UNCHANGED otherThanParse

\* lines 86-106, one line
ParseLineStep ==
    /\ pc = "lines"
    /\ idx < Len(lines)
    /\ LET st == ParseLine([artwork |-> artwork, current_field |-> current_field], lines, idx)
       IN  /\ artwork' = st.artwork
           /\ current_field' = st.current_field
    /\ idx' = idx + 1
    /\ UNCHANGED <<pc, text, lines>>
    /\ UNCHANGED otherThanParse

\* line 107
ParseReturn ==
    /\ pc = "lines"
    /\ idx = Len(lines)
    /\ pc' = "returned"
    /\ UNCHANGED parseVars
    /\ UNCHANGED otherThanParse

NextParse == ParseStart \/ ParseLineStep \/ ParseReturn

SpecParse == InitParse /\ [][NextParse]_vars

----------------------------------------------------------------------------
(* Specification of parse_sale_of_column: one call on one cell.            *)

InitSale ==
    /\ pc = "sale"
    /\ entry \in SaleEntries
    /\ sale = NotCalled
    /\ IdleParse
    /\ IdleGeom
    /\ IdleMain

\* lines 109-144
ParseSaleOf ==
    /\ pc = "sale"
    /\ sale' = parse_sale_of_column(entry)
    /\ pc' = "sale_done"
    /\ UNCHANGED entry
    /\ UNCHANGED otherThanSale

NextSale == ParseSaleOf

SpecSale == InitSale /\ [][NextSale]_vars

----------------------------------------------------------------------------
(* Specification of find_artnet_separators: one call on one document.      *)

InitSep ==
    /\ pc = "locate"
    /\ doc \in SepDocs
    /\ separators = <<>>
    /\ start_sep = NoSeparator
    /\ end_sep = NoSeparator
    /\ IdleParse
    /\ IdleSale
    /\ IdleMain

\* lines 25-41
LocateSeparators ==
    /\ pc = "locate"
    /\ separators' = find_artnet_separators(doc)
    /\ pc' = "located"
    /\ UNCHANGED <<doc, start_sep, end_sep, parseVars, saleVars, mainVars>>

NextSep == LocateSeparators

SpecSep == InitSep /\ [][NextSep]_vars

----------------------------------------------------------------------------
(* Specification of the text extractor: lines 55-77 of get_artwork_info.   *)

InitExtract ==
    /\ pc = "extract"
    /\ doc \in ExtractDocs
    /\ start_sep \in [page : 0..(Len(doc) - 1), y : SepYs]
    /\ end_sep \in [page : start_sep.page..(Len(doc) - 1), y : SepYs]
    /\ separators = <<>>
    /\ IdleParse
    /\ IdleSale
    /\ IdleMain

\* lines 55-77
ExtractRegion ==
    /\ pc = "extract"
    /\ text' = ExtractText(doc, start_sep, end_sep)
    /\ pc' = "extracted"
    /\ UNCHANGED <<lines, idx, artwork, current_field, saleVars, geomVars, mainVars>>

NextExtract == ExtractRegion

SpecExtract == InitExtract /\ [][NextExtract]_vars

----------------------------------------------------------------------------
(* Specification of main.                                                  *)

Init ==
    /\ pc = "files"
    /\ pdf_files \in SeqsUpTo(DriverFiles, MaxFiles)
    /\ file_idx = 1
    /\ i = 0
    /\ results = <<>>
    /\ table = None
    /\ error = ""
    /\ IdleGeom
    /\ IdleParse
    /\ IdleSale

\* lines 150-153: the next file is opened and its separators located; a
\* file fitz cannot open raises out of main.
OpenDocument ==
    /\ pc = "files"
    /\ file_idx <= Len(pdf_files)
    /\ IF pdf_files[file_idx].openable
       THEN /\ doc' = pdf_files[file_idx].pages
            /\ separators' = find_artnet_separators(pdf_files[file_idx].pages)
            /\ i' = 0
            /\ pc' = "entries"
            /\ error' = error
       ELSE /\ pc' = "crashed"
            /\ error' = "FileDataError"
            /\ UNCHANGED <<doc, separators, i>>
    /\ UNCHANGED <<start_sep, end_sep, pdf_files, file_idx, results, table>>
    /\ UNCHANGED <<parseVars, saleVars>>

\* lines 154-158: one entry of the open document; an exception of
\* get_artwork_info raises out of main.
ProcessEntry ==
    /\ pc = "entries"
    /\ i < Len(separators) - 1
    /\ \E span \in {EntrySpan(separators, i)} :
       \E call \in {get_artwork_info(doc, span[1], span[2])} :
           /\ start_sep' = span[1]
           /\ end_sep' = span[2]
           /\ IF call.raised
              THEN /\ pc' = "crashed"
                   /\ error' = "UnboundLocalError"
                   /\ UNCHANGED <<i, results>>
              ELSE /\ results' = AppendResult(results, call.value)
                   /\ i' = i + 1
                   /\ UNCHANGED <<pc, error>>
    /\ UNCHANGED <<doc, separators, pdf_files, file_idx, table>>
    /\ UNCHANGED <<parseVars, saleVars>>

\* line 154, the range exhausted: on to the next file
NextDocument ==
    /\ pc = "entries"
    /\ i >= Len(separators) - 1
    /\ file_idx' = file_idx + 1
    /\ pc' = "files"
    /\ UNCHANGED <<pdf_files, i, results, table, error>>
    /\ UNCHANGED <<parseVars, saleVars, geomVars>>

\* lines 159-166: the table is built and written; df['Sale of'] raises
\* KeyError when no record has that key.
WriteTable ==
    /\ pc = "files"
    /\ file_idx > Len(pdf_files)
    /\ IF \E n \in 1..Len(results) : SaleOf \in DOMAIN results[n]
       THEN /\ table' = Some([n \in 1..Len(results) |-> TableRow(results[n])])
            /\ pc' = "done"
            /\ error' = error
       ELSE /\ pc' = "crashed"
            /\ error' = "KeyError"
            /\ table' = table
    /\ UNCHANGED <<pdf_files, file_idx, i, results>>
    /\ UNCHANGED <<parseVars, saleVars, geomVars>>

Next == OpenDocument \/ ProcessEntry \/ NextDocument \/ WriteTable

Spec == Init /\ [][Next]_vars

----------------------------------------------------------------------------
(* Properties of the field parser (checked under SpecParse).               *)

Labels == {ARTNET_CATEGORIES[k] : k \in 1..Len(ARTNET_CATEGORIES)}

\* The loop body has just run on lines[idx] (0-based).
LineStep == pc = "lines" /\ idx < Len(lines) /\ idx' = idx + 1

\* label number k is the first of the nine, in list order, that prefixes line
FirstPrefix(line, k) ==
    /\ StartsWith(line, ARTNET_CATEGORIES[k])
    /\ \A j \in 1..(k - 1) : ~StartsWith(line, ARTNET_CATEGORIES[j])

\* key f has the same presence and value in both records
SameAt(a, b, f) ==
    /\ (f \in DOMAIN a) = (f \in DOMAIN b)
    /\ f \in DOMAIN a => a[f] = b[f]

\* C4: a line sets, among the nine label fields, only the first label (in
\* the order of ARTNET_CATEGORIES) that is a prefix of the trimmed line, and
\* that label becomes current_field; a line beginning with "Sold For" sets
\* the "Sold For" field and changes no other key of the record.
C4_FirstLabelWins ==
    [][LineStep =>
        LET line == Strip(lines[idx + 1])
        IN  /\ \A k \in 1..Len(ARTNET_CATEGORIES) :
                 FirstPrefix(line, k) =>
                    /\ current_field' = Some(ARTNET_CATEGORIES[k])
                    /\ ARTNET_CATEGORIES[k] \in DOMAIN artwork'
                    /\ \A f \in Labels \ {ARTNET_CATEGORIES[k]} : SameAt(artwork, artwork', f)
            /\ StartsWith(line, SoldFor) =>
                    /\ SoldFor \in DOMAIN artwork'
                    /\ \A f \in (DOMAIN artwork \cup DOMAIN artwork') \ {SoldFor} :
                          SameAt(artwork, artwork', f)
       ]_vars

C4_Witness ==
    /\ pc = "lines"
    /\ idx > 1
    /\ Strip(lines[idx]) = L_SoldForSize
    /\ current_field = Some(SoldFor)
    /\ SoldFor \in DOMAIN artwork
    /\ Size \notin DOMAIN artwork
    /\ SaleOf \in DOMAIN artwork

\* the number of the first label, in list order, that prefixes line; 0 if none
FirstLabelOf(line) ==
    CHOOSE k \in 0..Len(ARTNET_CATEGORIES) :
        IF k = 0 THEN \A j \in 1..Len(ARTNET_CATEGORIES) : ~StartsWith(line, ARTNET_CATEGORIES[j])
        ELSE FirstPrefix(line, k)

\* " " + trimmed line, for the lines from..to of the trimmed lines tl, in order
RECURSIVE Folded(_, _, _)
Folded(tl, from, to) ==
    IF from > to THEN <<>>
    ELSE <<" ">> \o tl[from] \o Folded(tl, from + 1, to)

\* the value the claim gives label number k after n lines, where tl are the
\* trimmed lines and lab their label numbers: the first-line value of the
\* last line labelled k, then every unlabelled line up to the next labelled
\* line
ExpectedValue(tl, lab, n, k) ==
    LET j     == Max({m \in 1..n : lab[m] = k})
        later == {m \in (j + 1)..n : lab[m] # 0}
        stop  == IF later = {} THEN n ELSE Min(later) - 1
        head  == Strip(Drop(tl[j], Len(ARTNET_CATEGORIES[k])))
    IN  (IF head # <<>> /\ head[1] = ":" THEN Strip(Tail(head)) ELSE head)
            \o Folded(tl, j + 1, stop)

ExampleLines == <<L_JaneDoe, L_TitleUntitled, L_DescOil, L_MoreDesc>>

V_Untitled == <<"U", "n", "t", "i", "t", "l", "e", "d">>
V_OilMore ==
    <<"O", "i", "l", " ", "o", "n", " ", "c", "a", "n", "v", "a", "s", " ", "m", "o",
      "r", "e", " ", "d", "e", "s", "c", " ", "t", "e", "x", "t">>

ExampleRecord ==
    [f \in {Artist, Title, Description} |->
        IF f = Artist THEN L_JaneDoe ELSE IF f = Title THEN V_Untitled ELSE V_OilMore]

\* C5: after any number of lines, the value of every label in the record is
\* the first-line value of the last line that matched it followed by " " +
\* the trimmed text of each following line that matches no label, in order,
\* up to the next labelled line; and the four example lines give the record
\* {Artist: Jane Doe, Title: Untitled, Description: Oil on canvas more desc text}.
C5_ContinuationFolding ==
    pc \in {"lines", "returned"} =>
        LET tl  == [m \in 1..Len(lines) |-> Strip(lines[m])]
            lab == [m \in 1..idx |-> FirstLabelOf(tl[m])]
        IN  /\ \A k \in 1..Len(ARTNET_CATEGORIES) :
                  /\ ARTNET_CATEGORIES[k] \in DOMAIN artwork <=> \E m \in 1..idx : lab[m] = k
                  /\ ARTNET_CATEGORIES[k] \in DOMAIN artwork =>
                        artwork[ARTNET_CATEGORIES[k]] = ExpectedValue(tl, lab, idx, k)
            /\ (pc = "returned" /\ lines = ExampleLines) => artwork = ExampleRecord

C5_Witness ==
    /\ pc = "returned"
    /\ lines = ExampleLines
    /\ artwork = ExampleRecord

\* C6: a line changes the Artist value only if its trimmed text starts with
\* "Title", it is not the first line and the trimmed preceding line starts
\* with none of the nine labels; the value is then the trimmed preceding
\* line.  A Title line that is first, or that follows a labelled line,
\* leaves Artist as it was.
C6_ArtistLookback ==
    [][LineStep =>
        LET line == Strip(lines[idx + 1])
            eligible == /\ StartsWith(line, Title)
                        /\ idx > 0
                        /\ \A f \in Labels : ~StartsWith(Strip(lines[idx]), f)
        IN  /\ eligible => Artist \in DOMAIN artwork' /\ artwork'[Artist] = Strip(lines[idx])
            /\ ~eligible => SameAt(artwork, artwork', Artist)
       ]_vars

C6_Witness ==
    /\ pc = "returned"
    /\ Len(lines) = 4
    /\ lines[1] = L_TitleUntitled
    /\ lines[2] = L_JaneDoe
    /\ lines[3] = L_TitleUntitled
    /\ lines[4] = L_TitleUntitled
    /\ artwork[Artist] = L_JaneDoe

\* C10: after any prefix of the lines the keys of the record are among the
\* nine labels and Artist, and Artist is a key only if Title is.
C10_KeysAndArtistNeedsTitle ==
    pc \in {"lines", "returned"} =>
        /\ DOMAIN artwork \subseteq Labels \cup {Artist}
        /\ Artist \in DOMAIN artwork => Title \in DOMAIN artwork

C10_Witness ==
    /\ pc = "lines"
    /\ idx = 2
    /\ idx < Len(lines)
    /\ DOMAIN artwork = {Artist, Title}

----------------------------------------------------------------------------
(* Properties of parse_sale_of_column (checked under SpecSale).            *)

\* C3: whatever the cell, the call returns (no exception escapes), and what
\* it returns either has auction_house, sale_date and lot_number all
\* non-null or is exactly {None, None, None, False}.
C3_AtomicFallback ==
    pc = "sale_done" =>
        /\ ~sale.raised
        /\ \/ /\ sale.value.auction_house # None
              /\ sale.value.sale_date # None
              /\ sale.value.lot_number # None
           \/ sale.value = [auction_house |-> None, sale_date |-> None,
                            lot_number |-> None, is_online |-> FALSE]

\* the cell matches the pattern, its date text does not parse, and the call
\* returned the fallback
C3_Witness ==
    /\ pc = "sale_done"
    /\ entry = Some(H_Christies \o S_ColonSpace \o D_Feb30 \o K_Lot42 \o T_Online)
    /\ SaleMatch(entry[1]) # None
    /\ ~sale.raised
    /\ sale.value.auction_house = None
    /\ sale.value.is_online = FALSE

----------------------------------------------------------------------------
(* Properties of find_artnet_separators (checked under SpecSep).           *)

\* the drawings, as <<page, drawing>> numbers (1-based), that are rectangles
\* less than 1 high, more than 100 wide and at y > 50
Qualifying(d) ==
    {q \in UNION {{<<p, k>> : k \in 1..Len(d[p].drawings)} : p \in 1..Len(d)} :
        LET r == d[q[1]].drawings[q[2]]
        IN  /\ r.kind = "re"
            /\ r.y1 - r.y0 < 1
            /\ r.y0 - r.y1 < 1
            /\ r.width > 100
            /\ r.y0 > 50}

\* a is met before b in the page-by-page, drawing-by-drawing scan
ScannedBefore(a, b) == a[1] < b[1] \/ (a[1] = b[1] /\ a[2] < b[2])

\* C8: the list returned holds exactly the qualifying rectangles, each once,
\* as {page, y}, in scan order.
C8_SeparatorsExact ==
    pc = "located" =>
        /\ Len(separators) = Cardinality(Qualifying(doc))
        /\ \A q \in Qualifying(doc) :
              separators[1 + Cardinality({r \in Qualifying(doc) : ScannedBefore(r, q)})]
                = [page |-> q[1] - 1, y |-> doc[q[1]].drawings[q[2]].y0]

C8_Witness ==
    /\ pc = "located"
    /\ Len(doc) = 2
    /\ doc[1].drawings = <<Bar(50), Bar(100)>>
    /\ doc[2].drawings = <<Bar(51), [kind |-> "re", y0 |-> 200, y1 |-> 200, width |-> 100]>>
    /\ separators = <<[page |-> 0, y |-> 100], [page |-> 1, y |-> 51]>>

----------------------------------------------------------------------------
(* Properties of the text extractor (checked under SpecExtract).           *)

\* the piece page number pg (0-based) contributes to a span s0..s1
Piece(d, s0, s1, pg) ==
    IF pg = s0.page THEN Strip(ClipText(d[pg + 1], s0.y, d[pg + 1].height))
    ELSE IF pg = s1.page THEN Strip(ClipText(d[pg + 1], 0, s1.y))
    ELSE Strip(FullText(d[pg + 1]))

\* C7: when the start page is before the end page, the text is the
\* newline-join of one piece per page start.page..end.page, in page order:
\* the start page from start.y to its bottom, each page between in full,
\* the end page from 0 to end.y, each piece trimmed.
C7_CrossPageText ==
    (pc = "extracted" /\ start_sep.page < end_sep.page) =>
        text = JoinLines([n \in 1..(end_sep.page - start_sep.page + 1) |->
                            Piece(doc, start_sep, end_sep, start_sep.page + n - 1)])

C7_Witness ==
    /\ pc = "extracted"
    /\ doc = <<PgA, PgB, PgD>>
    /\ start_sep = [page |-> 0, y |-> 400]
    /\ end_sep = [page |-> 2, y |-> 100]
    /\ text = B_AnnLee \o <<"\n">> \o B_MediumOil \o <<"\n">> \o B_TitleTwo

----------------------------------------------------------------------------
(* Properties of main (checked under Spec).                                *)

\* the number of records the claim gives a document: N - 1 for N >= 1
\* separators, 0 for none
EntryCount(file) ==
    LET n == Len(find_artnet_separators(file.pages))
    IN  IF n >= 1 THEN n - 1 ELSE 0

RECURSIVE EntryCountUpTo(_)
EntryCountUpTo(k) ==
    IF k = 0 THEN 0 ELSE EntryCountUpTo(k - 1) + EntryCount(pdf_files[k])

\* the documents the driver is through with: those before file_idx, and
\* the open one when its processing has ended the run
DocumentsThrough ==
    IF pc = "crashed" /\ error = "UnboundLocalError" THEN file_idx ELSE file_idx - 1

\* C1: once the driver is through with a document of N separators it has
\* appended N - 1 records for it (0 when N = 0), whatever lies between the
\* separators.
C1_EntryCount ==
    pc \in {"files", "done", "crashed"} => Len(results) = EntryCountUpTo(DocumentsThrough)

\* C2: no document that fails to open and no entry without text ends the
\* run.
C2_LocalFailureNeverAborts ==
    ~(pc = "crashed" /\ error \in {"FileDataError", "UnboundLocalError"})

\* the records of one document, in entry order
RecordsOf(file) ==
    LET seps == find_artnet_separators(file.pages)
    IN  [k \in 1..(Len(seps) - 1) |-> get_artwork_info(file.pages, seps[k], seps[k + 1]).value]

\* the records of the first k files, in file order
RECURSIVE RecordsUpTo(_)
RecordsUpTo(k) ==
    IF k = 0 THEN <<>> ELSE RecordsUpTo(k - 1) \o RecordsOf(pdf_files[k])

\* results is the records of the files before file_idx, in file order, then
\* the first i records of the open document, in entry order; the rows of the
\* table written are the records of results, in that order
RowsInOrder ==
    /\ results = RecordsUpTo(file_idx - 1) \o
                    (IF pc = "entries" \/ (pc = "crashed" /\ error = "UnboundLocalError")
                     THEN SubSeq(RecordsOf(pdf_files[file_idx]), 1, i)
                     ELSE <<>>)
    /\ pc = "done" =>
          /\ table # None
          /\ Len(table[1]) = Len(results)
          /\ \A n \in 1..Len(results) : table[1][n].record = results[n]

\* C9: rows are in document order, then entry order within a document,
\* documents are not interleaved, and a record once appended stays where it
\* is.
C9_RowOrder ==
    /\ []RowsInOrder
    /\ [][/\ Len(results') >= Len(results)
          /\ SubSeq(results', 1, Len(results)) = results]_vars

C9_Witness ==
    /\ pc = "done"
    /\ pdf_files = <<Openable(<<DP1, DP4>>), Openable(<<DP4, DP3, DP1>>)>>
    /\ Len(results) = 4
    /\ Len(table[1]) = 4
    /\ results[1] # results[2]
    /\ results[2] # results[3]

====
